---------------------------- MODULE Spec2Model ----------------------------
(***************************************************************************)
(* A model of pagerank.py: transition_model, sample_pagerank and           *)
(* iterate_pagerank over small link graphs.                                *)
(*                                                                         *)
(* Pages are the numbers 1..N in the iteration order of the corpus         *)
(* dictionary; a corpus is a function from 1..N to sets of pages.          *)
(*                                                                         *)
(* transition_model and sample_pagerank are computed in exact rational     *)
(* arithmetic (a rational is a normalised pair <<numerator, denominator>>).*)
(* iterate_pagerank runs many passes, so its ranks are finite-precision    *)
(* numbers: integers counting units of 1/Scale, every division rounded to  *)
(* the nearest unit as a Python float operation rounds to the nearest      *)
(* double.                                                                 *)
(***************************************************************************)
EXTENDS Integers, Sequences, FiniteSets, TLC

VARIABLES
    corpus,     \* the link graph: page -> set of linked pages
    damping,    \* damping_factor, a rational <<num, den>>
    pc,         \* position in the function being run
    outcome,    \* "none", "returned" or the name of the exception raised
    page,       \* transition_model's argument / sample_pagerank's current page
    prob,       \* the dictionary transition_model returned
    n,          \* sample_pagerank's n
    i,          \* sample_pagerank's loop index
    prank,      \* sample_pagerank's counters (rationals)
    rank,       \* iterate_pagerank's rank dictionary (units of 1/Scale)
    check,      \* iterate_pagerank's loop flag
    count,      \* iterate_pagerank's count of pages within tolerance
    web,        \* iterate_pagerank's position in "for web in corpus"
    snap,       \* history: rank as it was when the current pass began
    within,     \* history: pages the current pass found within tolerance
    partial     \* history: some completed pass had only part of the pages within tolerance

vars == <<corpus, damping, pc, outcome, page, prob, n, i, prank,
          rank, check, count, web, snap, within, partial>>

(***************************************************************************)
(* Bounds                                                                  *)
(***************************************************************************)
MaxPages == 3

MaxSamples == 3

Scale == 1000000

(***************************************************************************)
(* Inputs                                                                  *)
(***************************************************************************)
\* the graphs crawl can produce on N pages: links to existing pages only, no self-link
CorporaOf(N) ==
    { c \in [1..N -> SUBSET (1..N)] : \A p \in 1..N : p \notin c[p] }

Corpora == UNION { CorporaOf(N) : N \in 0..MaxPages }

\* DAMPING = 0.85, and a second value of the parameter
DampingFactors == { <<17, 20>>, <<1, 2>> }

\* len(corpus)
NumPages(c) == Cardinality(DOMAIN c)

(***************************************************************************)
(* Exact rational arithmetic                                               *)
(***************************************************************************)
Abs(x) == IF x < 0 THEN -x ELSE x

RECURSIVE GCD(_, _)
GCD(a, b) == IF b = 0 THEN a ELSE GCD(b, a % b)

QNorm(num, den) ==
    LET g == GCD(Abs(num), den) IN <<num \div g, den \div g>>

QZero == <<0, 1>>

QOne == <<1, 1>>

QAdd(x, y) == QNorm(x[1] * y[2] + y[1] * x[2], x[2] * y[2])

QSub(x, y) == QNorm(x[1] * y[2] - y[1] * x[2], x[2] * y[2])

\* x / k for an integer k >= 1
QDivInt(x, k) == QNorm(x[1], x[2] * k)

RECURSIVE QSum(_, _)
QSum(f, S) ==
    IF S = {} THEN QZero
    ELSE LET p == CHOOSE x \in S : TRUE IN QAdd(f[p], QSum(f, S \ {p}))

\* sum(d.values())
QTotal(f) == QSum(f, DOMAIN f)

(***************************************************************************)
(* transition_model                                                        *)
(***************************************************************************)
\* (1-damping_factor)/len(corpus)
BaseShare(c, d) == QDivInt(QSub(QOne, d), NumPages(c))

\* a faulty variant: the link mass divided by the number of pages
LinkShareByPages(c, pg, d) == QDivInt(d, NumPages(c))

\* damping_factor/len(corpus[page])
LinkShare(c, pg, d) == QDivInt(d, Cardinality(c[pg]))

\* for link in corpus[page]: prob[link] += damping_factor/len(corpus[page])
RECURSIVE AddLinks(_, _, _, _, _)
AddLinks(pr, links, c, pg, d) ==
    IF links = {} THEN pr
    ELSE LET link == CHOOSE x \in links : TRUE
         IN  AddLinks([pr EXCEPT ![link] = QAdd(@, LinkShare(c, pg, d))],
                      links \ {link}, c, pg, d)

transition_model(c, pg, d) ==
    AddLinks([w \in DOMAIN c |-> BaseShare(c, d)], c[pg], c, pg, d)

Idle ==
    /\ prob = <<>> /\ n = 0 /\ i = 0 /\ prank = <<>>
    /\ rank = <<>> /\ check = FALSE /\ count = 0 /\ web = 0
    /\ snap = <<>> /\ within = {} /\ partial = FALSE

InitTransition ==
    /\ corpus \in Corpora \ { <<>> }
    /\ damping \in DampingFactors
    /\ page \in DOMAIN corpus
    /\ pc = "call"
    /\ outcome = "none"
    /\ Idle

TransitionModel ==
    /\ pc = "call"
    /\ prob' = transition_model(corpus, page, damping)
    /\ pc' = "done"
    /\ outcome' = "returned"
    /\ UNCHANGED <<corpus, damping, page, n, i, prank,
                   rank, check, count, web, snap, within, partial>>

NextTransition == TransitionModel

SpecTransition == InitTransition /\ [][NextTransition]_vars

(***************************************************************************)
(* sample_pagerank                                                         *)
(***************************************************************************)
\* the pages random.choices can return: those of positive weight
Drawable(dist) == { p \in DOMAIN dist : dist[p][1] > 0 }

\* 1/n
Increment(k) == QDivInt(QOne, k)

InitSample ==
    /\ corpus \in Corpora
    /\ damping \in DampingFactors
    /\ n \in 1..MaxSamples
    /\ pc = "call"
    /\ outcome = "none"
    /\ page = 0 /\ prob = <<>> /\ i = 0 /\ prank = <<>>
    /\ rank = <<>> /\ check = FALSE /\ count = 0 /\ web = 0
    /\ snap = <<>> /\ within = {} /\ partial = FALSE

\* the counters, the first page by random.choice, its increment
SampleStart ==
    /\ pc = "call"
    /\ IF DOMAIN corpus = {}
       THEN /\ prank' = [w \in DOMAIN corpus |-> QZero]
            /\ outcome' = "IndexError"
            /\ pc' = "done"
            /\ UNCHANGED page
       ELSE /\ \E first \in DOMAIN corpus :
                /\ page' = first
                /\ prank' = [[w \in DOMAIN corpus |-> QZero]
                                EXCEPT ![first] = QAdd(@, Increment(n))]
            /\ pc' = "loop"
            /\ UNCHANGED outcome
    /\ UNCHANGED <<corpus, damping, prob, n, i,
                   rank, check, count, web, snap, within, partial>>

\* one turn of "for i in range(n)"
SampleStep ==
    /\ pc = "loop"
    /\ i < n
    /\ LET dist == transition_model(corpus, page, damping)
       IN  \E next \in Drawable(dist) :
               /\ page' = next
               /\ prank' = [prank EXCEPT ![next] = QAdd(@, Increment(n))]
    /\ i' = i + 1
    /\ UNCHANGED <<corpus, damping, pc, outcome, prob, n,
                   rank, check, count, web, snap, within, partial>>

SampleReturn ==
    /\ pc = "loop"
    /\ i = n
    /\ pc' = "done"
    /\ outcome' = "returned"
    /\ UNCHANGED <<corpus, damping, page, prob, n, i, prank,
                   rank, check, count, web, snap, within, partial>>

NextSample == SampleStart \/ SampleStep \/ SampleReturn

SpecSample == InitSample /\ [][NextSample]_vars

(***************************************************************************)
(* iterate_pagerank                                                        *)
(***************************************************************************)
\* a / b rounded to the nearest unit, for a >= 0 and b >= 1
FDiv(a, b) == (2 * a + b) \div (2 * b)

\* 0.001
Tolerance == Scale \div 1000

\* a faulty variant: a page without links adds nothing
SigmaTermLinksOnly(c, r, w, link) ==
    IF w \in c[link] THEN FDiv(r[link], Cardinality(c[link])) ELSE 0

\* what one turn of "for link in corpus" adds to sigma
SigmaTerm(c, r, w, link) ==
    IF w \in c[link] THEN FDiv(r[link], Cardinality(c[link]))
    ELSE IF c[link] = {} THEN FDiv(r[link], NumPages(c))
    ELSE 0

\* for link in corpus: ..., from page `link` on
RECURSIVE SigmaLoop(_, _, _, _, _)
SigmaLoop(c, r, w, link, sigma) ==
    IF link > NumPages(c) THEN sigma
    ELSE SigmaLoop(c, r, w, link + 1, sigma + SigmaTerm(c, r, w, link))

\* prob = (1-damping_factor)/len(corpus) + damping_factor*sigma
NewRank(c, d, r, w) ==
    FDiv((d[2] - d[1]) * Scale, d[2] * NumPages(c))
        + FDiv(d[1] * SigmaLoop(c, r, w, 1, 0), d[2])

\* abs(rank[web] - prob) <= 0.001
WithinTolerance(old, new) == Abs(old - new) <= Tolerance

InitIterate ==
    /\ corpus \in Corpora
    /\ damping \in DampingFactors
    /\ pc = "call"
    /\ outcome = "none"
    /\ page = 0 /\ prob = <<>> /\ n = 0 /\ i = 0 /\ prank = <<>>
    /\ rank = <<>> /\ check = FALSE /\ count = 0 /\ web = 0
    /\ snap = <<>> /\ within = {} /\ partial = FALSE

\* rank[web] = 1/len(corpus) for every page; check = True
IterStart ==
    /\ pc = "call"
    /\ rank' = [w \in DOMAIN corpus |-> FDiv(Scale, NumPages(corpus))]
    /\ check' = TRUE
    /\ pc' = "while"
    /\ UNCHANGED <<corpus, damping, outcome, page, prob, n, i, prank,
                   count, web, snap, within, partial>>

\* a faulty variant: count is carried over from the pass before
PassBeginCount(c) == c

\* count = 0
PassBeginCountReset(c) == 0

\* while check: count = 0, and the for loop starts
PassBegin ==
    /\ pc = "while"
    /\ check
    /\ count' = PassBeginCountReset(count)
    /\ web' = 1
    /\ snap' = rank
    /\ within' = {}
    /\ pc' = "for"
    /\ UNCHANGED <<corpus, damping, outcome, page, prob, n, i, prank,
                   rank, check, partial>>

\* the body of "for web in corpus" for one page
UpdatePage ==
    /\ pc = "for"
    /\ web <= NumPages(corpus)
    /\ LET new == NewRank(corpus, damping, rank, web)
       IN  /\ IF WithinTolerance(rank[web], new)
              THEN count' = count + 1 /\ within' = within \cup {web}
              ELSE UNCHANGED <<count, within>>
           /\ rank' = [rank EXCEPT ![web] = new]
    /\ web' = web + 1
    /\ UNCHANGED <<corpus, damping, pc, outcome, page, prob, n, i, prank,
                   check, snap, partial>>

\* a faulty variant: the loop goes on unless more pages than there are were counted
AllCountedStrict(cnt, c) == cnt > NumPages(c)

\* count >= len(corpus)
AllCounted(cnt, c) == cnt >= NumPages(c)

\* after the for loop: if count >= len(corpus): check = False
PassEnd ==
    /\ pc = "for"
    /\ web > NumPages(corpus)
    /\ check' = IF AllCounted(count, corpus) THEN FALSE ELSE check
    /\ partial' = (partial \/ (within # {} /\ within # DOMAIN corpus))
    /\ pc' = "while"
    /\ UNCHANGED <<corpus, damping, outcome, page, prob, n, i, prank,
                   rank, count, web, snap, within>>

\* return rank
IterReturn ==
    /\ pc = "while"
    /\ ~check
    /\ pc' = "done"
    /\ outcome' = "returned"
    /\ UNCHANGED <<corpus, damping, page, prob, n, i, prank,
                   rank, check, count, web, snap, within, partial>>

NextIterate == IterStart \/ PassBegin \/ UpdatePage \/ PassEnd \/ IterReturn

SpecIterate == InitIterate /\ [][NextIterate]_vars

\* the interpreter runs the loop on: a step that can be taken is taken
FairSpecIterate == SpecIterate /\ WF_vars(NextIterate)

(***************************************************************************)
(* Properties of transition_model (checked under SpecTransition)           *)
(***************************************************************************)
\* C1: transition_model returns one entry per page of the corpus and the
\* entries sum to exactly 1, for every valid graph, page and damping factor.
C1_TransitionSumsToOne ==
    pc = "done" =>
        /\ DOMAIN prob = DOMAIN corpus
        /\ QTotal(prob) = QOne

\* C2: for a page without outbound links transition_model returns the
\* uniform distribution, 1/N for every page.
C2_DanglingUniform ==
    (pc = "done" /\ corpus[page] = {}) =>
        \A w \in DOMAIN corpus : prob[w] = QNorm(1, NumPages(corpus))

\* C3: for a page with L >= 1 outbound links every linked page gets
\* (1 - d)/N + d/L and every other page gets (1 - d)/N; for the three pages
\* of the worked example that is 0.475, 0.475 and 0.05.
C3_LinkedShares ==
    (pc = "done" /\ corpus[page] # {}) =>
        LET N  == NumPages(corpus)
            L  == Cardinality(corpus[page])
            dn == damping[1]
            dd == damping[2]
        IN  /\ \A w \in DOMAIN corpus :
                  prob[w] = IF w \in corpus[page]
                            THEN QNorm((dd - dn) * L + dn * N, dd * N * L)
                            ELSE QNorm(dd - dn, dd * N)
            /\ (corpus = <<{2, 3}, {3}, {2}>> /\ page = 1 /\ damping = <<17, 20>>)
                  => prob = << <<1, 20>>, <<19, 40>>, <<19, 40>> >>

C3_Witness ==
    /\ pc = "done"
    /\ corpus = <<{2, 3}, {3}, {2}>>
    /\ page = 1
    /\ damping = <<17, 20>>
    /\ prob[2] = <<19, 40>>

(***************************************************************************)
(* Properties of sample_pagerank (checked under SpecSample)                *)
(***************************************************************************)
\* C4: the mapping sample_pagerank returns has one entry per page and its
\* values sum to exactly 1, whatever pages were drawn.
C4_SampleSumsToOne ==
    (pc = "done" /\ outcome = "returned") =>
        /\ DOMAIN prank = DOMAIN corpus
        /\ QTotal(prank) = QOne

(***************************************************************************)
(* Properties of iterate_pagerank (checked under SpecIterate)              *)
(***************************************************************************)
RECURSIVE IntSum(_, _)
IntSum(f, S) ==
    IF S = {} THEN 0
    ELSE LET p == CHOOSE x \in S : TRUE IN f[p] + IntSum(f, S \ {p})

\* C5: within a pass every new rank is computed from the ranks the pages had
\* when the pass began: the pages already updated hold the ranks a ranker
\* that builds a separate new mapping from the snapshot would give them.
C5_PassFromSnapshot ==
    pc = "for" =>
        \A p \in 1..(web - 1) : rank[p] = NewRank(corpus, damping, snap, p)

\* C6: the ranks sum to 1 within 0.001 at initialisation, after every
\* completed pass and in the mapping returned.
C6_RankSumsToOne ==
    (pc \in {"while", "done"} /\ DOMAIN corpus # {}) =>
        Abs(IntSum(rank, DOMAIN rank) - Scale) <= Tolerance

\* C7: the loop flag is cleared only at the end of a pass whose every page
\* ended within 0.001 of its rank at the start of that pass; during a pass
\* the flag stays set, and count counts exactly the pages this pass has
\* recomputed and found within tolerance of the snapshot.
C7_StopsOnlyWhenAllWithin ==
    /\ (pc \in {"while", "done"} /\ ~check) =>
          /\ web = NumPages(corpus) + 1
          /\ \A p \in DOMAIN corpus : Abs(rank[p] - snap[p]) <= Tolerance
    /\ pc = "done" => ~check
    /\ pc = "for" =>
          /\ check
          /\ within = { p \in 1..(web - 1) : Abs(rank[p] - snap[p]) <= Tolerance }
          /\ count = Cardinality(within)

C7_Witness ==
    /\ pc = "done"
    /\ outcome = "returned"
    /\ partial
    /\ NumPages(corpus) >= 2

\* C8: called with an empty corpus the ranker ends in an InvalidCorpus error.
C8_EmptyCorpusRejected ==
    (DOMAIN corpus = {} /\ pc = "done") => outcome = "InvalidCorpus"

\* C9: for every non-empty graph the pass loop eventually ends.
C9_Terminates ==
    (DOMAIN corpus # {}) ~> (pc = "done")

C9_Witness ==
    /\ pc = "done"
    /\ outcome = "returned"
    /\ NumPages(corpus) = MaxPages
    /\ \E p \in DOMAIN corpus : rank[p] # FDiv(Scale, NumPages(corpus))

\* (1 - d)/N + d * S, S summed over the pages linking to p and the pages without links
RefRank(c, d, r, p) ==
    LET linking  == { q \in DOMAIN c : p \in c[q] }
        dangling == { q \in DOMAIN c : c[q] = {} }
        S == IntSum([q \in linking |-> FDiv(r[q], Cardinality(c[q]))], linking)
               + IntSum([q \in dangling |-> FDiv(r[q], NumPages(c))], dangling)
    IN  FDiv((d[2] - d[1]) * Scale, d[2] * NumPages(c)) + FDiv(d[1] * S, d[2])

\* C10: every rank update gives page p the rank (1 - d)/N + d * S, where S
\* has rank[q]/L(q) once for each page q linking to p and rank[q]/N once for
\* each page q without links (p itself included), and nothing else.
C10_UpdateFormula ==
    [][UpdatePage => rank'[web] = RefRank(corpus, damping, rank, web)]_vars

C10_Witness ==
    /\ pc = "for"
    /\ corpus = <<{}, {3}, {2}>>
    /\ web = 4
    /\ rank # snap

=============================================================================
